---- MODULE Spec2Model ----
(***************************************************************************)
(* A model of mugulhan/smart-crawler: the single-page analysis engine      *)
(* (crawler/crawler_engine.py, SmartCrawler) and the graph layout builder  *)
(* (crawler/views.py, api_graph_data).                                     *)
(*                                                                         *)
(* The module holds six state machines over disjoint variables:             *)
(*   SpecCrawl  SmartCrawler.crawl(): fetch, parse, extract, the link      *)
(*              probes one by one, the audit, the returned result;         *)
(*   SpecScore  _run_lighthouse_audit / _calculate_performance_score on    *)
(*              inputs drawn from bounded sets;                            *)
(*   SpecDom    _extract_html_structure and _find_parent_element on small   *)
(*              element trees;                                             *)
(*   SpecGraph  api_graph_data on bounded lists of persisted links;        *)
(*   SpecPage   _extract_schema_markup, _analyze_accessibility and         *)
(*              _analyze_seo on bounded parsed pages;                      *)
(*   SpecTask   the Celery task crawl_url (crawler/tasks.py) on a short    *)
(*              queue of jobs: the job's status, the rows it saves, and    *)
(*              the requests.Session of each SmartCrawler it constructs.   *)
(*                                                                         *)
(* Python values are modelled as follows.  None is the empty sequence <<>> *)
(* and an int n is <<n>> wherever a field may hold either.  A float number *)
(* of seconds is an integer number of milliseconds.  A string that the     *)
(* code builds or splits is a sequence of tokens.                          *)
(***************************************************************************)
EXTENDS Integers, Sequences, FiniteSets, TLC

VARIABLES
    \* ---- SmartCrawler.crawl ----
    pc,          \* position of crawl(): the step that runs next
    response,    \* what session.get returned (or the exception it raised)
    page_info,   \* the page_info dict built from the response and the soup
    links,       \* the list of link dicts, mutated in place by the probes
    idx,         \* 1-based index of the next link of links[:max_checks]
    probes,      \* the HEAD requests issued so far, in order: [link, out]
    lighthouse,  \* the dict returned by _run_lighthouse_audit
    audit_exc,   \* None, or <<e>>: the exception raised inside the audit
    result       \* the dict returned by crawl()

VARIABLES
    \* ---- _run_lighthouse_audit on its own ----
    audit_in,    \* the arguments of the call, and what the analyzers return
    audit_out    \* None, or the dict returned

VARIABLES
    \* ---- the page parser and the link extractor on one parsed page ----
    dom,             \* the element tree below body: [parent, el]
    dom_pc,          \* "structure", "links" or "done"
    html_structure,  \* what _extract_html_structure returned
    dom_links        \* what _extract_links returned

VARIABLES
    \* ---- api_graph_data on one job ----
    job,    \* the CrawlJob: its url's host and its persisted links, in query order
    graph   \* None, or the JSON the view returned: nodes, edges, stats

VARIABLES
    \* ---- the schema extractor and the analyzers on one parsed page ----
    page,       \* None, or the soup: what the extractor and the analyzers read
    page_pc,    \* "schema", "analyze" or "done"
    page_audit  \* what they returned: schema_markup, accessibility, seo

VARIABLES
    \* ---- the task crawl_url, run by one worker on one job after another ----
    queue,           \* the ids of the jobs whose task has not started yet
    task,            \* the running task: its position and its locals
    crawl_jobs,      \* the CrawlJob rows, by id
    page_info_rows,  \* the ids of the jobs that have a PageInfo row
    link_rows,       \* by job id, the number of Link rows of the job
    sessions         \* every requests.Session created so far, in order

crawlVars == <<pc, response, page_info, links, idx, probes, lighthouse, audit_exc, result>>
scoreVars == <<audit_in, audit_out>>
domVars == <<dom, dom_pc, html_structure, dom_links>>
graphVars == <<job, graph>>
taskVars == <<queue, task, crawl_jobs, page_info_rows, link_rows, sessions>>
pageVars == <<page, page_pc, page_audit>>

vars == <<crawlVars, scoreVars, domVars, graphVars, taskVars, pageVars>>

\* What each machine leaves alone.
notCrawl == <<scoreVars, domVars, graphVars, taskVars, pageVars>>
notScore == <<crawlVars, domVars, graphVars, taskVars, pageVars>>
notDom == <<crawlVars, scoreVars, graphVars, taskVars, pageVars>>
notGraph == <<crawlVars, scoreVars, domVars, taskVars, pageVars>>
notTask == <<crawlVars, scoreVars, domVars, graphVars, pageVars>>
notPage == <<crawlVars, scoreVars, domVars, graphVars, taskVars>>

None == <<>>

Min(a, b) == IF a < b THEN a ELSE b
Max(a, b) == IF a > b THEN a ELSE b

Range(s) == {s[k] : k \in DOMAIN s}

(***************************************************************************)
(* Audit scorer: crawler_engine.py, _run_lighthouse_audit and helpers.     *)
(***************************************************************************)

\* Bytes in the megabyte of size_mb = page_size / (1024 * 1024).
MB == 1048576

calculate_performance_score_cumulative(response_time, page_size) ==
    LET t == (IF response_time > 3000 THEN 40 ELSE 0) + (IF response_time > 2000 THEN 30 ELSE 0)
             + (IF response_time > 1000 THEN 20 ELSE 0) + (IF response_time > 500 THEN 10 ELSE 0)
        z == (IF page_size > 5 * MB THEN 30 ELSE 0) + (IF page_size > 3 * MB THEN 20 ELSE 0)
             + (IF page_size > 1 * MB THEN 10 ELSE 0)
    IN  Max(0, 100 - t - z)

\* _calculate_performance_score(response_time, page_size); response_time in
\* milliseconds, page_size in bytes (size_mb > k is page_size > k * MB).
calculate_performance_score(response_time, page_size) ==
    LET s1 == IF response_time > 3000 THEN 100 - 40
              ELSE IF response_time > 2000 THEN 100 - 30
              ELSE IF response_time > 1000 THEN 100 - 20
              ELSE IF response_time > 500 THEN 100 - 10
              ELSE 100
        s2 == IF page_size > 5 * MB THEN s1 - 30
              ELSE IF page_size > 3 * MB THEN s1 - 20
              ELSE IF page_size > 1 * MB THEN s1 - 10
              ELSE s1
    IN  Max(0, s2)

py_round_truncating(num, den) == {num \div den}

\* Python's round(x) of the float x whose exact value is num/den (num >= 0,
\* den > 0): the results it can return.  Off a tie the nearest integer.  At an
\* exact tie round() picks the even neighbour of the float it is given, and the
\* float sum of the weighted terms may sit a rounding error off .5 on either
\* side, so either neighbour can come back (both are seen over the sub-scores
\* 0..100: 0.3*100 + 0.25*70 + 0.25*100 + 0.2*100 gives 92, and
\* 0.3*1 + 0.2*41 gives 9).
py_round(num, den) ==
    IF 2 * (num % den) = den
    THEN {num \div den, (num \div den) + 1}
    ELSE {(2 * num + den) \div (2 * den)}

\* The weighted sum of lines 243-246 as the exact fraction
\* (30p + 25a + 25b + 20s) / 100, rounded by round().
overall_scores(p, a, b, s) == py_round(30 * p + 25 * a + 25 * b + 20 * s, 100)

\* _get_audit_details: the findings list.  soup carries what the checks read:
\* images_without_alt (a count), title and meta_description (present and
\* non-empty), https (self.url starts with https://).
get_audit_details(soup, response_time) ==
    (IF response_time > 1000
     THEN <<[category |-> "performance", title |-> "Server Response Time",
             score |-> IF response_time < 3000 THEN "warning" ELSE "error"]>>
     ELSE <<>>)
    \o (IF soup.images_without_alt > 0
        THEN <<[category |-> "accessibility", title |-> "Image Alt Attributes", score |-> "warning"]>>
        ELSE <<>>)
    \o (IF ~soup.title
        THEN <<[category |-> "seo", title |-> "Document Title", score |-> "error"]>>
        ELSE <<>>)
    \o (IF ~soup.meta_description
        THEN <<[category |-> "seo", title |-> "Meta Description", score |-> "error"]>>
        ELSE <<>>)
    \o (IF ~soup.https
        THEN <<[category |-> "best_practices", title |-> "HTTPS Usage", score |-> "error"]>>
        ELSE <<>>)

\* The steps inside the try block of _run_lighthouse_audit, in order; an
\* exception can come out of any of them.
AuditSteps == <<"performance", "accessibility", "best_practices", "seo", "overall", "metrics", "audits">>

audit_failure_partial(e) ==
    [overall |-> 0, performance |-> 100, accessibility |-> 0, best_practices |-> 0,
     seo |-> 0, metrics |-> None, audits |-> [error |-> e]]

\* The except branch (lines 262-271): all zeros, no metrics, {'error': str(e)}.
audit_failure(e) ==
    [overall |-> 0, performance |-> 0, accessibility |-> 0, best_practices |-> 0,
     seo |-> 0, metrics |-> None, audits |-> [error |-> e]]

\* _run_lighthouse_audit.  a, b, s are what _analyze_accessibility,
\* _analyze_best_practices and _analyze_seo return for the soup; o is the
\* value round() returns; fail is None or <<step>>, the step that raises
\* (the exception's message is the step's name).
run_lighthouse_audit(soup, response_time, page_size, a, b, s, o, fail) ==
    IF fail # None
    THEN audit_failure(fail[1])
    ELSE [overall |-> o,
          performance |-> calculate_performance_score(response_time, page_size),
          accessibility |-> a, best_practices |-> b, seo |-> s,
          metrics |-> <<response_time, page_size>>,
          audits |-> get_audit_details(soup, response_time)]

(***************************************************************************)
(* SmartCrawler.crawl and _check_link_status.                              *)
(***************************************************************************)

\* _check_link_status(self, links, max_checks=50)
max_checks == 50

\* The longest link list the model extracts.
MaxLinks == 52

LinkCounts == {0, 1, 2, max_checks, max_checks + 1, MaxLinks}

\* The links whose server may answer anything; the others answer 200.
FlakyLinks == {1, 2, max_checks, max_checks + 1}

\* What session.head can do: answer with a status code, or raise a
\* RequestException (ok = FALSE).
ProbeOutcomes ==
    {[ok |-> TRUE, status_code |-> c] : c \in {200, 399, 400}} \cup {[ok |-> FALSE, status_code |-> 0]}

\* What session.get can do: a response (any status), or a RequestException.
\* The parsed pages of the crawl model: what _get_audit_details reads, and
\* the scores a, b, s the three analyzers return for the page.
GoodSoup ==
    [images_without_alt |-> 0, title |-> TRUE, meta_description |-> TRUE, https |-> TRUE,
     a |-> 100, b |-> 100, s |-> 100]

BadSoup ==
    [images_without_alt |-> 2, title |-> FALSE, meta_description |-> FALSE, https |-> FALSE,
     a |-> 35, b |-> 60, s |-> 45]

\* What session.get can return: a response, whatever its HTTP status.
Responses ==
    {[ok |-> TRUE, status_code |-> 200, response_time |-> 200, page_size |-> 1000,
      soup |-> GoodSoup, error |-> ""],
     [ok |-> TRUE, status_code |-> 404, response_time |-> 3505, page_size |-> 4 * MB,
      soup |-> BadSoup, error |-> ""]}

FetchErrors == {"ConnectionError", "Timeout", "TooManyRedirects"}

CrawlStart ==
    /\ pc = "fetch"
    /\ response = None
    /\ page_info = None
    /\ links = <<>>
    /\ idx = 1
    /\ probes = <<>>
    /\ lighthouse = None
    /\ audit_exc = None
    /\ result = None

CrawlIdle ==
    /\ pc = "idle"
    /\ response = None
    /\ page_info = None
    /\ links = <<>>
    /\ idx = 1
    /\ probes = <<>>
    /\ lighthouse = None
    /\ audit_exc = None
    /\ result = None

\* Line 25: the GET succeeds (whatever the HTTP status).
Fetch ==
    /\ pc = "fetch"
    /\ \E r \in Responses : response' = r
    /\ pc' = "parse"
    /\ UNCHANGED <<page_info, links, idx, probes, lighthouse, audit_exc, result, notCrawl>>

crawl_failure_partial(e, pi, ls) ==
    [success |-> FALSE, error |-> e, page_info |-> [status_code |-> 0], links |-> ls,
     total_links |-> Len(ls), internal_links |-> 0, external_links |-> 0]

\* Lines 60-69: the dict returned from the except branch.  pi and ls are the
\* locals page_info and links at the time, which the branch does not read.
crawl_failure(e, pi, ls) ==
    [success |-> FALSE, error |-> e, page_info |-> None, links |-> <<>>,
     total_links |-> 0, internal_links |-> 0, external_links |-> 0]

\* Line 25 raises a RequestException: the except branch returns at once.
FetchFails ==
    /\ pc = "fetch"
    /\ \E e \in FetchErrors :
         /\ response' = [ok |-> FALSE, status_code |-> 0, response_time |-> 0, page_size |-> 0,
                         soup |-> None, error |-> e]
         /\ result' = crawl_failure(e, page_info, links)
    /\ pc' = "done"
    /\ UNCHANGED <<page_info, links, idx, probes, lighthouse, audit_exc, notCrawl>>

\* Lines 28-40: page_info.  round(response_time, 2) keeps centiseconds.
Parse ==
    /\ pc = "parse"
    /\ \E cs \in py_round(response.response_time, 10) :
         page_info' = [status_code |-> response.status_code,
                       response_time |-> 10 * cs,
                       page_size |-> response.page_size]
    /\ pc' = "extract"
    /\ UNCHANGED <<response, links, idx, probes, lighthouse, audit_exc, result, notCrawl>>

\* Line 43: _extract_links returns n link dicts without status fields
\* (has_status = FALSE: the keys status_code and is_broken are absent).
ExtractLinks ==
    /\ pc = "extract"
    /\ \E n \in LinkCounts :
         links' = [k \in 1..n |->
                     [url |-> k,
                      link_type |-> IF k % 2 = 1 THEN "internal" ELSE "external",
                      has_status |-> FALSE, status_code |-> None, is_broken |-> FALSE]]
    /\ pc' = "check"
    /\ UNCHANGED <<response, page_info, idx, probes, lighthouse, audit_exc, result, notCrawl>>

probe_result_strict(link, out) ==
    IF out.ok
    THEN [link EXCEPT !.has_status = TRUE, !.status_code = <<out.status_code>>,
                      !.is_broken = (out.status_code > 400)]
    ELSE [link EXCEPT !.has_status = TRUE, !.status_code = None, !.is_broken = TRUE]

\* Lines 204-214: the body of the loop for one link and one probe outcome.
probe_result(link, out) ==
    IF out.ok
    THEN [link EXCEPT !.has_status = TRUE, !.status_code = <<out.status_code>>,
                      !.is_broken = (out.status_code >= 400)]
    ELSE [link EXCEPT !.has_status = TRUE, !.status_code = None, !.is_broken = TRUE]

checked_slice_all(ls) == Len(ls)

\* len(links[:max_checks])
checked_slice(ls) == Min(Len(ls), max_checks)

\* Lines 203-217: one iteration of the loop over links[:max_checks].
CheckLink ==
    /\ pc = "check"
    /\ idx <= checked_slice(links)
    /\ \E out \in ProbeOutcomes :
         /\ idx \in FlakyLinks \/ (out.ok /\ out.status_code = 200)
         /\ links' = [links EXCEPT ![idx] = probe_result(links[idx], out)]
         /\ probes' = Append(probes, [link |-> idx, out |-> out])
    /\ idx' = idx + 1
    /\ UNCHANGED <<pc, response, page_info, lighthouse, audit_exc, result, notCrawl>>

\* Lines 220-222: the loop over links[max_checks:], after the first loop ended.
CheckRest ==
    /\ pc = "check"
    /\ idx > checked_slice(links)
    /\ links' = [k \in DOMAIN links |->
                   IF k > checked_slice(links)
                   THEN [links[k] EXCEPT !.has_status = TRUE, !.status_code = None,
                                         !.is_broken = FALSE]
                   ELSE links[k]]
    /\ pc' = "audit"
    /\ UNCHANGED <<response, page_info, idx, probes, lighthouse, audit_exc, result, notCrawl>>

\* Line 49: _run_lighthouse_audit(soup, response, response_time).
Audit ==
    /\ pc = "audit"
    /\ \E fail \in {None} \cup {<<st>> : st \in Range(AuditSteps)} :
         LET soup == response.soup
             p == calculate_performance_score(response.response_time, response.page_size)
         IN  \E o \in overall_scores(p, soup.a, soup.b, soup.s) :
                /\ lighthouse' = run_lighthouse_audit(soup, response.response_time,
                                                      response.page_size,
                                                      soup.a, soup.b, soup.s, o, fail)
                /\ audit_exc' = fail
    /\ pc' = "return"
    /\ UNCHANGED <<response, page_info, links, idx, probes, result, notCrawl>>

count_type(ls, t) == Cardinality({k \in DOMAIN ls : ls[k].link_type = t})

\* Lines 51-58: the success dict.
Return ==
    /\ pc = "return"
    /\ result' = [success |-> TRUE, error |-> "",
                  page_info |-> [status_code |-> page_info.status_code,
                                 response_time |-> page_info.response_time,
                                 page_size |-> page_info.page_size,
                                 lighthouse_score |-> lighthouse],
                  links |-> links,
                  total_links |-> Len(links),
                  internal_links |-> count_type(links, "internal"),
                  external_links |-> count_type(links, "external")]
    /\ pc' = "done"
    /\ UNCHANGED <<response, page_info, links, idx, probes, lighthouse, audit_exc, notCrawl>>

NextCrawl == Fetch \/ FetchFails \/ Parse \/ ExtractLinks \/ CheckLink \/ CheckRest \/ Audit \/ Return

(***************************************************************************)
(* _run_lighthouse_audit on inputs drawn from bounded sets.                *)
(***************************************************************************)

\* Response times in milliseconds, around every band edge of lines 278-285.
ResponseTimes == {0, 1, 499, 500, 501, 999, 1000, 1001, 1999, 2000, 2001, 2999, 3000, 3001, 9000}

\* Page sizes in bytes, around every band edge of lines 289-294.
PageSizes == {0, MB - 1, MB, MB + 1, 3 * MB, 3 * MB + 1, 5 * MB, 5 * MB + 1, 9 * MB}

\* Values the three analyzers return (each is clamped to 0..100).
SubScores == {0, 1, 50, 70, 85, 100}

AuditInputs ==
    [response_time : ResponseTimes, page_size : PageSizes,
     a : SubScores, b : SubScores, s : SubScores]

ScoreIdle == audit_in = None /\ audit_out = None

ScoreStart == audit_in \in AuditInputs /\ audit_out = None

\* One call of _run_lighthouse_audit(soup, response, response_time).
RunAudit ==
    /\ audit_in # None
    /\ audit_out = None
    /\ \E fail \in {None, <<"seo">>} :
         LET soup == [GoodSoup EXCEPT !.a = audit_in.a, !.b = audit_in.b, !.s = audit_in.s]
             p == calculate_performance_score(audit_in.response_time, audit_in.page_size)
         IN  \E o \in overall_scores(p, soup.a, soup.b, soup.s) :
                audit_out' = run_lighthouse_audit(soup, audit_in.response_time,
                                                  audit_in.page_size,
                                                  soup.a, soup.b, soup.s, o, fail)
    /\ UNCHANGED <<audit_in, notScore>>

NextScore == RunAudit

(***************************************************************************)
(* The page parser's structure tree and the link extractor's parent path.  *)
(* A parsed page is the element tree below body: elements 1..MaxNodes,     *)
(* element 0 is body, parent[n] < n, and the children of an element are in *)
(* document order by number.                                               *)
(***************************************************************************)

\* The elements below body in a page whose structure tree is built.
MaxNodes == 5

\* The containers above the link in a page whose link is extracted.
MaxAncestors == 3

\* build_tree(body, 0, 4)
max_depth == 4

\* Line 91 and line 175.
semantic_tags ==
    {"html", "head", "body", "header", "footer", "nav", "main", "section", "article", "aside", "div"}

semantic_elements == {"header", "footer", "nav", "main", "section", "article", "aside"}

\* The container elements of the model's pages.  span stands for every tag
\* outside semantic_tags that can hold block content (span, form, ul, li, td).
Containers ==
    {[tag |-> "div", id |-> "", classes |-> <<>>],
     [tag |-> "span", id |-> "", classes |-> <<>>],
     [tag |-> "section", id |-> "s1", classes |-> <<"hero", "wide">>],
     [tag |-> "nav", id |-> "", classes |-> <<"main-nav", "dark">>],
     [tag |-> "article", id |-> "", classes |-> <<>>]}

\* <a href="/x">
Anchor == [tag |-> "a", id |-> "", classes |-> <<>>]

\* The shapes of a page of k elements: each element hangs below body or
\* below one of the two elements before it.
Shapes(k) ==
    {p \in [1..k -> 0..(k - 1)] : \A n \in 1..k : p[n] \in {0, n - 1, n - 2} /\ p[n] >= 0}

\* Pages of containers, for the structure tree.
TreeDoms ==
    [parent : Shapes(MaxNodes),
     el : [1..MaxNodes -> {c \in Containers : c.tag \in {"div", "span", "section"}}]]

\* Pages whose last element is a link below up to MaxAncestors containers.
LinkDoms ==
    [parent : Shapes(MaxAncestors + 1),
     el : {[n \in 1..(MaxAncestors + 1) |-> IF n = MaxAncestors + 1 THEN Anchor ELSE c[n]] :
             c \in [1..MaxAncestors -> Containers]}]

Doms == TreeDoms \cup LinkDoms

Body == 0

TagOf(d, n) == IF n = Body THEN "body" ELSE d.el[n].tag
IdOf(d, n) == IF n = Body THEN "" ELSE d.el[n].id
ClassesOf(d, n) == IF n = Body THEN <<>> ELSE d.el[n].classes

\* element.children, in document order.
ChildrenOf(d, n) ==
    LET kids == {c \in DOMAIN d.parent : d.parent[c] = n}
    IN  [i \in 1..Cardinality(kids) |->
            CHOOSE c \in kids : Cardinality({x \in kids : x < c}) = i - 1]

\* Lines 106-109: direct children counted by tag, whatever the tag.
child_counts(d, n) ==
    LET kids == Range(ChildrenOf(d, n))
    IN  [t \in {TagOf(d, c) : c \in kids} |-> Cardinality({c \in kids : TagOf(d, c) = t})]

RECURSIVE build_tree(_, _, _, _)
RECURSIVE build_children(_, _, _, _, _)

\* Lines 114-118: the loop over element.children from the i-th child on; the
\* child's node is appended when build_tree returns one.
build_children(d, kids, i, depth, maxd) ==
    IF i > Len(kids)
    THEN <<>>
    ELSE build_tree(d, kids[i], depth + 1, maxd) \o build_children(d, kids, i + 1, depth, maxd)

build_tree_transparent(d, element, depth, maxd) ==
    IF depth > maxd
    THEN <<>>
    ELSE IF TagOf(d, element) \notin semantic_tags
    THEN build_children(d, ChildrenOf(d, element), 1, depth - 1, maxd)
    ELSE <<[element |-> element,
            tag |-> TagOf(d, element),
            id |-> IdOf(d, element),
            classes |-> ClassesOf(d, element),
            child_counts |-> child_counts(d, element),
            children |-> build_children(d, ChildrenOf(d, element), 1, depth, maxd)]>>

\* build_tree(element, depth, max_depth), lines 85-120.  The result is <<>>
\* for None and <<node>> for a node dict.  The field element is not in the
\* dict: it names the element the node was built from.
build_tree(d, element, depth, maxd) ==
    IF depth > maxd
    THEN <<>>
    ELSE IF TagOf(d, element) \notin semantic_tags
    THEN <<>>
    ELSE <<[element |-> element,
            tag |-> TagOf(d, element),
            id |-> IdOf(d, element),
            classes |-> ClassesOf(d, element),
            child_counts |-> child_counts(d, element),
            children |-> build_children(d, ChildrenOf(d, element), 1, depth, maxd)]>>

\* Lines 122-126: the page has a body, so the tree is build_tree(body, 0, 4).
extract_html_structure(d) == build_tree(d, Body, 0, max_depth)[1]

descriptor_class_first(d, n) ==
    IF ClassesOf(d, n) # <<>> THEN <<TagOf(d, n), ".", ClassesOf(d, n)[1]>>
    ELSE IF IdOf(d, n) # "" THEN <<TagOf(d, n), "#", IdOf(d, n)>>
    ELSE <<TagOf(d, n)>>

\* Lines 184-192: the f-strings, as token sequences.
descriptor(d, n) ==
    IF IdOf(d, n) # "" THEN <<TagOf(d, n), "#", IdOf(d, n)>>
    ELSE IF ClassesOf(d, n) # <<>> THEN <<TagOf(d, n), ".", ClassesOf(d, n)[1]>>
    ELSE <<TagOf(d, n)>>

RECURSIVE collect_parents(_, _)

\* Lines 181-193: the while loop from current up to body; the list parents,
\* innermost first.
collect_parents(d, current) ==
    IF current = Body
    THEN <<>>
    ELSE (IF TagOf(d, current) \in semantic_elements THEN <<descriptor(d, current)>> ELSE <<>>)
         \o collect_parents(d, d.parent[current])

RECURSIVE join_reversed(_)

\* ' > '.join(reversed(parents))
join_reversed(parents) ==
    IF Len(parents) = 1
    THEN parents[1]
    ELSE join_reversed(Tail(parents)) \o <<" > ">> \o parents[1]

\* _find_parent_element(element), lines 172-199.
find_parent_element(d, element) ==
    LET parents == collect_parents(d, d.parent[element])
    IN  IF parents # <<>> THEN join_reversed(parents) ELSE <<"body">>

\* _extract_links, lines 149-168: one dict per <a href>, in document order.
extract_links(d) ==
    LET anchors == {n \in DOMAIN d.el : d.el[n].tag = "a"}
    IN  [i \in 1..Cardinality(anchors) |->
            LET n == CHOOSE c \in anchors : Cardinality({x \in anchors : x < c}) = i - 1
            IN  [element |-> n, parent_element |-> find_parent_element(d, n)]]

DomIdle == dom = None /\ dom_pc = "idle" /\ html_structure = None /\ dom_links = None

DomStart == dom \in Doms /\ dom_pc = "structure" /\ html_structure = None /\ dom_links = None

\* Line 38: 'html_structure': self._extract_html_structure(soup)
ExtractHtmlStructure ==
    /\ dom_pc = "structure"
    /\ html_structure' = extract_html_structure(dom)
    /\ dom_pc' = "links"
    /\ UNCHANGED <<dom, dom_links, notDom>>

\* Line 43: links = self._extract_links(soup)
ExtractPageLinks ==
    /\ dom_pc = "links"
    /\ dom_links' = extract_links(dom)
    /\ dom_pc' = "done"
    /\ UNCHANGED <<dom, html_structure, notDom>>

NextDom == ExtractHtmlStructure \/ ExtractPageLinks

(***************************************************************************)
(* The graph layout builder: views.py, api_graph_data.                     *)
(***************************************************************************)

\* [:50] and [:30], lines 126-127.
internal_cap == 50
external_cap == 30

\* The links of a job that the model chooses freely.
MaxSmall == 3

\* urlparse(crawl_job.url).netloc
main_domain == "site.test"

\* The URLs of the model's links, in ascending string order (the order of
\* Link.Meta.ordering within one link_type): host and non-empty path segments.
Urls ==
    <<[host |-> "cdn.test", segs |-> <<"lib">>],            \* https://cdn.test/lib
      [host |-> "ext.test", segs |-> <<>>],                 \* https://ext.test/
      [host |-> "ext.test", segs |-> <<"p">>],              \* https://ext.test/p
      [host |-> "site.test", segs |-> <<>>],                \* https://site.test/
      [host |-> "site.test", segs |-> <<"a">>],             \* https://site.test/a
      [host |-> "site.test", segs |-> <<"a", "b", "c">>]>>  \* https://site.test/a/b/c

\* parent_element values: None, 'nav.main-nav', 'section#s1', 'section > article'.
ParentElements ==
    {None, <<"nav", ".", "main-nav">>, <<"section", "#", "s1">>, <<"section", " > ", "article">>}

\* A persisted Link row; link_type as _extract_links set it (lines 157-158 of
\* crawler_engine.py).
LinkRow(u, parent) ==
    [url |-> u,
     link_type |-> IF Urls[u].host = main_domain THEN "internal" ELSE "external",
     parent_element |-> parent]

\* Internal links from every place, external links from the page body.
LinkRows ==
    {LinkRow(u, parent) : u \in {v \in DOMAIN Urls : Urls[v].host = main_domain},
                          parent \in ParentElements}
        \cup {LinkRow(u, None) : u \in DOMAIN Urls}

\* Many links to one page from one place: the rows that fill the caps.
InternalPad == LinkRow(5, <<"nav", ".", "main-nav">>)
ExternalPad == LinkRow(2, None)

\* How many of each pad row a job holds: none, or one less than each cap, so
\* that the free rows decide what the caps cut.
Pads == {<<0, 0>>, <<internal_cap - 1, 0>>, <<0, external_cap - 1>>}

\* crawl_job.links.all(): ordered by link_type, then url (models.py line 82);
\* 'external' sorts before 'internal', and so do the external URLs here.
SortedRows(k) ==
    {q \in [1..k -> LinkRows] : \A i \in 1..(k - 1) : q[i].url <= q[i + 1].url}

Copies(row, n) == [i \in 1..n |-> row]

WithUrl(q, u) == SelectSeq(q, LAMBDA l : l.url = u)

\* The small rows q with n copies of row added behind the rows of its URL.
Padded(q, row, n) ==
    SelectSeq(q, LAMBDA l : l.url <= row.url) \o Copies(row, n)
        \o SelectSeq(q, LAMBDA l : l.url > row.url)

Jobs ==
    {[url_host |-> main_domain,
      links |-> Padded(Padded(q, InternalPad, pad[1]), ExternalPad, pad[2])] :
        q \in UNION {SortedRows(k) : k \in 0..MaxSmall}, pad \in Pads}

\* The first n items of a list: list[:n].
Take(q, n) == SubSeq(q, 1, Min(n, Len(q)))

\* link.parent_element or 'body'
parent_or_body(l) == IF l.parent_element = None THEN <<"body">> ELSE l.parent_element

\* The keys of links_by_element in insertion order (lines 130-135): a key is
\* inserted at the first link that has it, so the keys are the parents of q
\* in the order of their first appearance.
first_seen(q) ==
    LET parents == {parent_or_body(q[i]) : i \in DOMAIN q}
        first(p) == CHOOSE i \in DOMAIN q :
                        /\ parent_or_body(q[i]) = p
                        /\ \A j \in 1..(i - 1) : parent_or_body(q[j]) # p
        rank(p) == Cardinality({r \in parents : first(r) < first(p)}) + 1
    IN  [k \in 1..Cardinality(parents) |-> CHOOSE p \in parents : rank(p) = k]

\* links_by_element[parent]
element_links(q, parent) == SelectSeq(q, LAMBDA l : parent_or_body(l) = parent)

\* Lines 139-148.
element_layer_map ==
    [t \in {"header", "nav", "main", "footer", "aside", "section", "article", "body"} |->
        IF t \in {"section", "article"} THEN 2 ELSE 1]

RECURSIVE split_head(_)

\* re.split(r'[#.]', s)[0] and s.split('#')[0].split('.')[0]: the string up
\* to the first '#' or '.'.
split_head(tokens) ==
    IF tokens = <<>> \/ Head(tokens) \in {"#", "."}
    THEN <<>>
    ELSE <<Head(tokens)>> \o split_head(Tail(tokens))

\* element_layer_map.get(base_tag, 1): base_tag is a key only if it is one
\* bare tag.
layer_of(base_tag) ==
    IF Len(base_tag) = 1 /\ base_tag[1] \in DOMAIN element_layer_map
    THEN element_layer_map[base_tag[1]]
    ELSE 1

has_group_always(members) == Len(members) >= 1

\* Line 152 and line 226: len(element_links) > 1
has_group(members) == Len(members) > 1

RECURSIVE element_loop(_, _, _, _)

\* Lines 150-180: the loop over links_by_element.items() from the i-th key
\* on.  acc carries nodes, edges, node_id_counter and element_nodes.
element_loop(q, keys, i, acc) ==
    IF i > Len(keys) THEN acc
    ELSE LET parent_element == keys[i]
             element_node_id == <<"element", acc.counter>>
             layer == layer_of(split_head(parent_element))
         IN  IF has_group(element_links(q, parent_element))
             THEN element_loop(q, keys, i + 1,
                    [nodes |-> Append(acc.nodes,
                                  [id |-> element_node_id, label |-> <<"upper", parent_element>>,
                                   type |-> "element_group", domain |-> main_domain,
                                   layer |-> layer, parent_element |-> parent_element]),
                     edges |-> Append(acc.edges, [from |-> <<"root">>, to |-> element_node_id]),
                     counter |-> acc.counter + 1,
                     element_nodes |-> acc.element_nodes \cup
                                         {[key |-> parent_element, id |-> element_node_id,
                                           layer |-> layer]}])
             ELSE element_loop(q, keys, i + 1, acc)

\* Lines 201-209 for the model's short segments: 'Home' for '/', else the
\* last segment.
internal_label(segs) == IF segs = <<>> THEN "Home" ELSE segs[Len(segs)]

internal_layer_flat(base_layer, path_depth) == base_layer + path_depth

\* Line 199: layer = base_layer + path_depth + 1
internal_layer(base_layer, path_depth) == base_layer + path_depth + 1

\* Lines 184-237: the inner loop over one key's links.  Each pass appends one
\* node and one edge and adds one to node_id_counter, and reads nothing else
\* that a pass writes: the j-th link gets the counter at entry plus j - 1.
internal_links_loop(parent_element, members, acc) ==
    LET segs(j) == Urls[members[j].url].segs
        node_id(j) == <<"internal", acc.counter + j - 1>>
        base_layer == layer_of(split_head(parent_element))
        path_depth(j) == Min(Len(segs(j)), 2)
        layer(j) == internal_layer(base_layer, path_depth(j))
        group == {g \in acc.element_nodes : g.key = parent_element}
        from == IF group # {} /\ has_group(members)
                THEN (CHOOSE g \in group : TRUE).id
                ELSE <<"root">>
    IN  [acc EXCEPT
            !.nodes = @ \o [j \in 1..Len(members) |->
                              [id |-> node_id(j), label |-> internal_label(segs(j)),
                               url |-> members[j].url, type |-> "internal",
                               domain |-> Urls[members[j].url].host, path |-> segs(j),
                               layer |-> layer(j), parent_element |-> parent_element]],
            !.edges = @ \o [j \in 1..Len(members) |->
                              [from |-> from, to |-> node_id(j), path |-> segs(j)]],
            !.counter = @ + Len(members)]

RECURSIVE internal_loop(_, _, _, _)

\* Lines 183-237: the outer loop over links_by_element.items().
internal_loop(q, keys, i, acc) ==
    IF i > Len(keys) THEN acc
    ELSE internal_loop(q, keys, i + 1,
            internal_links_loop(keys[i], element_links(q, keys[i]), acc))

external_count_before(n) == n

\* Line 268 runs before the edge is built at line 275: the edge carries the
\* count n of the host's earlier links after the increment.
external_count(n) == n + 1

\* Lines 240-276: the loop over external_links.  Before pass i,
\* external_domains holds the hosts of the earlier links, each with the number
\* of those links as its count, and node_id_counter has grown by one per host.
external_loop(q, acc) ==
    LET domain(i) == Urls[q[i].url].host
        earlier(i) == {j \in 1..(i - 1) : domain(j) = domain(i)}
        \* domain not in external_domains
        new(i) == earlier(i) = {}
        counter(i) == acc.counter + Cardinality({j \in 1..(i - 1) : new(j)})
        first(i) == CHOOSE j \in 1..i : domain(j) = domain(i) /\ new(j)
        node_id(i) == <<"external", counter(first(i))>>
        count(i) == external_count(Cardinality(earlier(i)))
        created == {i \in DOMAIN q : new(i)}
        kth(k) == CHOOSE i \in created : Cardinality({j \in created : j < i}) = k - 1
    IN  [nodes |-> acc.nodes \o [k \in 1..Cardinality(created) |->
                      [id |-> node_id(kth(k)), label |-> domain(kth(k)), url |-> q[kth(k)].url,
                       type |-> "external", domain |-> domain(kth(k)),
                       path |-> Urls[q[kth(k)].url].segs, layer |-> 1,
                       parent_element |-> parent_or_body(q[kth(k)])]],
         edges |-> acc.edges \o [i \in 1..Len(q) |->
                      [from |-> <<"root">>, to |-> node_id(i), count |-> count(i)]],
         counter |-> acc.counter + Cardinality(created),
         element_nodes |-> acc.element_nodes]

internal_links_uncapped(q) == SelectSeq(q, LAMBDA l : l.link_type = "internal")

\* Line 126.
internal_links(q) == Take(SelectSeq(q, LAMBDA l : l.link_type = "internal"), internal_cap)

external_links_uncapped(q) == SelectSeq(q, LAMBDA l : l.link_type = "external")

\* Line 127.
external_links(q) == Take(SelectSeq(q, LAMBDA l : l.link_type = "external"), external_cap)

\* Line 286: max(...) over the layers of the nodes; the root node is always
\* among them.
max_layer(nodes) ==
    CHOOSE m \in {nodes[i].layer : i \in DOMAIN nodes} : \A i \in DOMAIN nodes : nodes[i].layer <= m

\* api_graph_data, lines 100-288: the JSON for the links q of a job.
api_graph_data(q) ==
    LET internal == internal_links(q)
        external == external_links(q)
        keys == first_seen(internal)
        start == [nodes |-> <<[id |-> <<"root">>, label |-> main_domain, type |-> "root",
                               domain |-> main_domain, layer |-> 0]>>,
                  edges |-> <<>>, counter |-> 0, element_nodes |-> {}]
        a1 == element_loop(internal, keys, 1, start)
        a2 == internal_loop(internal, keys, 1, a1)
        a3 == external_loop(external, a2)
    IN  [nodes |-> a3.nodes,
         edges |-> a3.edges,
         stats |-> [total_nodes |-> Len(a3.nodes),
                    total_edges |-> Len(a3.edges),
                    internal |-> Len(SelectSeq(a3.nodes, LAMBDA n : n.type = "internal")),
                    external |-> Len(SelectSeq(a3.nodes, LAMBDA n : n.type = "external")),
                    layers |-> max_layer(a3.nodes)]]

GraphIdle == job = None /\ graph = None

GraphStart == job \in Jobs /\ graph = None

\* One GET of the graph endpoint for the job.
ApiGraphData ==
    /\ job # None
    /\ graph = None
    /\ graph' = api_graph_data(job.links)
    /\ UNCHANGED <<job, notGraph>>

NextGraph == ApiGraphData

(***************************************************************************)
(* The schema extractor and the analyzers: crawler_engine.py,              *)
(* _extract_schema_markup, _analyze_accessibility, _analyze_seo.  A page   *)
(* is a record of what they read from the soup.                            *)
(***************************************************************************)

\* The most img elements, input elements and ld+json scripts of a page.
MaxImages == 2
MaxInputs == 2
MaxScripts == 2

\* <input type=... id=...>: id is None when the attribute is absent, else
\* <<value>>.
InputFields == [type : {"text", "email", "password", "tel", "checkbox"}, id : {None, <<"a">>, <<"b">>}]

\* The content of a <script type="application/ld+json">: JSON that parses,
\* text that does not, or no text at all (script.string is None).
ScriptBodies == {"valid", "malformed", "empty"}

\* A page with nothing on it that an analyzer penalizes or rewards, except
\* what the fields below say.
PlainPage ==
    [images |-> 0, images_without_alt |-> 0, h1_count |-> 1, inputs |-> <<>>, label_for |-> {},
     role |-> FALSE, title |-> <<45>>, meta_description |-> <<140>>, canonical |-> TRUE,
     robots |-> None, ld_json |-> <<>>]

\* Pages that vary in what _analyze_accessibility reads: h1 elements and
\* whether any element has a role attribute, with either img elements (n of
\* them, w without alt) or inputs and the for attributes of the labels.
AccessPages ==
    {[PlainPage EXCEPT !.images = nw[1], !.images_without_alt = nw[2], !.h1_count = h, !.role = r] :
        nw \in {x \in (0..MaxImages) \X (0..MaxImages) : x[2] <= x[1]},
        h \in 0..2, r \in BOOLEAN}
    \cup {[PlainPage EXCEPT !.h1_count = h, !.inputs = q, !.label_for = lf, !.role = r] :
            h \in 0..2, q \in UNION {[1..k -> InputFields] : k \in 0..MaxInputs},
            lf \in SUBSET {"a"}, r \in BOOLEAN}

\* Pages that vary in what _analyze_seo and _extract_schema_markup read: the
\* stripped title's length (None: no title element), the meta description's
\* content length (None: no such meta element), h1, the canonical link, the
\* robots meta content (None: no robots meta), and the ld+json scripts in document order.
SeoPages ==
    {[PlainPage EXCEPT !.title = t, !.meta_description = m, !.h1_count = h, !.canonical = c,
                       !.robots = r, !.ld_json = js] :
        t \in {None, <<0>>, <<29>>, <<30>>, <<60>>, <<61>>},
        m \in {None, <<0>>, <<119>>, <<120>>, <<160>>, <<161>>},
        h \in {0, 1}, c \in BOOLEAN, r \in {None, <<"index">>, <<"noindex">>},
        js \in UNION {[1..k -> ScriptBodies] : k \in 0..MaxScripts}}

Pages == AccessPages \cup SeoPages

\* Lines 133-142: json.loads succeeds on a valid script and the data is
\* appended; JSONDecodeError and TypeError are skipped.
extract_schema_markup(soup) == SelectSeq(soup.ld_json, LAMBDA body : body = "valid")

\* Lines 319-325: the loop over the inputs of the four types; only an input
\* that has an id is looked up, and it costs 5 when no label has for=id.
unlabelled_inputs(soup) ==
    {i \in DOMAIN soup.inputs :
        /\ soup.inputs[i].type \in {"text", "email", "password", "tel"}
        /\ soup.inputs[i].id # None
        /\ soup.inputs[i].id[1] \notin soup.label_for}

\* _analyze_accessibility, lines 298-332.  int(score * (0.5 + 0.5 * alt_ratio))
\* is the integer part of 100 * (2n - w) / 2n for n images, w without alt.
analyze_accessibility(soup) ==
    LET s1 == IF soup.images > 0
              THEN (100 * (2 * soup.images - soup.images_without_alt)) \div (2 * soup.images)
              ELSE 100
        s2 == IF soup.h1_count = 0 THEN s1 - 15
              ELSE IF soup.h1_count > 1 THEN s1 - 10
              ELSE s1
        s3 == s2 - 5 * Cardinality(unlabelled_inputs(soup))
        s4 == IF soup.role THEN Min(100, s3 + 5) ELSE s3
    IN  Max(0, Min(100, s4))

\* Line 403: soup.find_all('script', type='application/ld+json').
structured_data(soup) == soup.ld_json

\* _analyze_seo, lines 369-407.
analyze_seo(soup) ==
    LET s1 == IF soup.title = None \/ soup.title[1] = 0 THEN 100 - 20
              ELSE IF soup.title[1] < 30 \/ soup.title[1] > 60 THEN 100 - 10
              ELSE 100
        s2 == IF soup.meta_description = None \/ soup.meta_description[1] = 0 THEN s1 - 20
              ELSE IF soup.meta_description[1] < 120 \/ soup.meta_description[1] > 160 THEN s1 - 10
              ELSE s1
        s3 == IF soup.h1_count = 0 THEN s2 - 15 ELSE s2
        s4 == IF ~soup.canonical THEN s3 - 10 ELSE s3
        s5 == IF soup.robots = <<"noindex">> THEN s4 - 15 ELSE s4
        s6 == IF structured_data(soup) # <<>> THEN Min(100, s5 + 10) ELSE s5
    IN  Max(0, s6)

PageIdle == page = None /\ page_pc = "idle" /\ page_audit = None

PageStart == page \in Pages /\ page_pc = "schema" /\ page_audit = None

\* crawl(), line 39: self._extract_schema_markup(soup).
ExtractSchemaMarkup ==
    /\ page_pc = "schema"
    /\ page_audit' = [schema_markup |-> extract_schema_markup(page),
                      accessibility |-> None, seo |-> None]
    /\ page_pc' = "analyze"
    /\ UNCHANGED <<page, notPage>>

\* _run_lighthouse_audit, lines 233 and 239: the two analyzers on the soup.
AnalyzePage ==
    /\ page_pc = "analyze"
    /\ page_audit' = [page_audit EXCEPT !.accessibility = <<analyze_accessibility(page)>>,
                                        !.seo = <<analyze_seo(page)>>]
    /\ page_pc' = "done"
    /\ UNCHANGED <<page, notPage>>

NextPage == ExtractSchemaMarkup \/ AnalyzePage

(***************************************************************************)
(* The Celery task: tasks.py, crawl_url, and the CrawlJob methods of        *)
(* models.py.                                                              *)
(***************************************************************************)

\* The jobs the worker runs, one task after another.
NumJobs == 2

\* The longest link list a crawl returns to the task.
MaxSaved == 2

JobIds == 1..NumJobs

\* What crawler.crawl() can do (line 15): return the success dict with n
\* links, return the failure dict of its except branch, or raise an
\* exception that is no RequestException (crawl() catches nothing else).
CrawlOutcomes ==
    {[exit |-> "success", success |-> TRUE, error |-> "", links |-> n] : n \in 0..MaxSaved}
        \cup {[exit |-> "fetch_failure", success |-> FALSE, error |-> "ConnectionError", links |-> 0],
              [exit |-> "exception", success |-> FALSE, error |-> "FeatureNotFound", links |-> 0]}

\* models.py, line 15: status defaults to 'pending'.
NewJob == [status |-> "pending", error_message |-> "", total_links |-> 0]

\* models.py, lines 32-35.
mark_as_running(j) == [j EXCEPT !.status = "running"]

\* models.py, lines 37-40.
mark_as_completed(j) == [j EXCEPT !.status = "completed"]

\* models.py, lines 42-46.
mark_as_failed(j, error) == [j EXCEPT !.status = "failed", !.error_message = error]

NoTask == [pc |-> "idle", crawl_job_id |-> 0, crawler |-> 0, exit |-> "none",
           result |-> None, k |-> 1, e |-> ""]

TaskIdle ==
    /\ queue = <<>>
    /\ task = NoTask
    /\ crawl_jobs = <<>>
    /\ page_info_rows = {}
    /\ link_rows = <<>>
    /\ sessions = <<>>

\* views.py, lines 33-34: each job is created pending and its task queued,
\* so every queued id is the id of a row.
TaskInit ==
    /\ queue = [i \in JobIds |-> i]
    /\ task = NoTask
    /\ crawl_jobs = [i \in JobIds |-> NewJob]
    /\ page_info_rows = {}
    /\ link_rows = [i \in JobIds |-> 0]
    /\ sessions = <<>>

\* Lines 10-11: the worker starts the next task; the job is marked running.
TaskStart ==
    /\ task.pc \in {"idle", "done"}
    /\ queue # <<>>
    /\ task' = [NoTask EXCEPT !.pc = "construct", !.crawl_job_id = Head(queue)]
    /\ queue' = Tail(queue)
    /\ crawl_jobs' = [crawl_jobs EXCEPT ![Head(queue)] = mark_as_running(@)]
    /\ UNCHANGED <<page_info_rows, link_rows, sessions, notTask>>

\* Line 14, SmartCrawler.__init__ (crawler_engine.py line 15): a new
\* requests.Session, held by the new crawler.
Construct ==
    /\ task.pc = "construct"
    /\ sessions' = Append(sessions, [open |-> TRUE, used_by |-> {}])
    /\ task' = [task EXCEPT !.pc = "crawl", !.crawler = Len(sessions) + 1]
    /\ UNCHANGED <<queue, crawl_jobs, page_info_rows, link_rows, notTask>>

\* Line 15: crawler.crawl() runs to one of its exits.  Its GET (and its
\* probes) go through self.session; no line of crawl() closes the session.
Crawl ==
    /\ task.pc = "crawl"
    /\ \E out \in CrawlOutcomes :
         task' = [task EXCEPT !.pc = IF out.exit = "exception" THEN "except" ELSE "returned",
                              !.exit = out.exit,
                              !.result = IF out.exit = "exception" THEN None ELSE out,
                              !.e = IF out.exit = "exception" THEN out.error ELSE ""]
    /\ sessions' = [sessions EXCEPT ![task.crawler].used_by = @ \cup {task.crawl_job_id}]
    /\ UNCHANGED <<queue, crawl_jobs, page_info_rows, link_rows, notTask>>

\* Lines 17-22: PageInfo.objects.create saves the row, or raises.
SavePageInfo ==
    /\ task.pc = "returned"
    /\ task.result.success
    /\ \/ /\ page_info_rows' = page_info_rows \cup {task.crawl_job_id}
          /\ task' = [task EXCEPT !.pc = "save_links", !.k = 1]
       \/ /\ page_info_rows' = page_info_rows
          /\ task' = [task EXCEPT !.pc = "except", !.e = "DataError"]
    /\ UNCHANGED <<queue, crawl_jobs, link_rows, sessions, notTask>>

\* Lines 25-29: one pass of the loop: Link.objects.create saves the row, or
\* raises.
SaveLink ==
    /\ task.pc = "save_links"
    /\ task.k <= task.result.links
    /\ \/ /\ link_rows' = [link_rows EXCEPT ![task.crawl_job_id] = @ + 1]
          /\ task' = [task EXCEPT !.k = @ + 1]
       \/ /\ link_rows' = link_rows
          /\ task' = [task EXCEPT !.pc = "except", !.e = "DataError"]
    /\ UNCHANGED <<queue, crawl_jobs, page_info_rows, sessions, notTask>>

\* Lines 32-35: the summary, and mark_as_completed().
Complete ==
    /\ task.pc = "save_links"
    /\ task.k > task.result.links
    /\ crawl_jobs' = [crawl_jobs EXCEPT ![task.crawl_job_id] =
                        mark_as_completed([@ EXCEPT !.total_links = task.result.links])]
    /\ task' = [task EXCEPT !.pc = "done"]
    /\ UNCHANGED <<queue, page_info_rows, link_rows, sessions, notTask>>

\* Lines 37-38: crawl() returned its failure dict.
ResultFailed ==
    /\ task.pc = "returned"
    /\ ~task.result.success
    /\ crawl_jobs' = [crawl_jobs EXCEPT ![task.crawl_job_id] = mark_as_failed(@, task.result.error)]
    /\ task' = [task EXCEPT !.pc = "done"]
    /\ UNCHANGED <<queue, page_info_rows, link_rows, sessions, notTask>>

\* Lines 40-41: the handler of every exception; it deletes no row.
Except ==
    /\ task.pc = "except"
    /\ crawl_jobs' = [crawl_jobs EXCEPT ![task.crawl_job_id] = mark_as_failed(@, task.e)]
    /\ task' = [task EXCEPT !.pc = "done"]
    /\ UNCHANGED <<queue, page_info_rows, link_rows, sessions, notTask>>

NextTask ==
    TaskStart \/ Construct \/ Crawl \/ SavePageInfo \/ SaveLink \/ Complete \/ ResultFailed \/ Except

(***************************************************************************)
(* The specifications.                                                     *)
(***************************************************************************)

InitCrawl == CrawlStart /\ ScoreIdle /\ DomIdle /\ GraphIdle /\ TaskIdle /\ PageIdle

SpecCrawl == InitCrawl /\ [][NextCrawl]_vars

InitScore == ScoreStart /\ CrawlIdle /\ DomIdle /\ GraphIdle /\ TaskIdle /\ PageIdle

SpecScore == InitScore /\ [][NextScore]_vars

InitDom == DomStart /\ CrawlIdle /\ ScoreIdle /\ GraphIdle /\ TaskIdle /\ PageIdle

SpecDom == InitDom /\ [][NextDom]_vars

InitGraph == GraphStart /\ CrawlIdle /\ ScoreIdle /\ DomIdle /\ TaskIdle /\ PageIdle

SpecGraph == InitGraph /\ [][NextGraph]_vars

InitTask == TaskInit /\ CrawlIdle /\ ScoreIdle /\ DomIdle /\ GraphIdle /\ PageIdle

SpecTask == InitTask /\ [][NextTask]_vars

InitPage == PageStart /\ CrawlIdle /\ ScoreIdle /\ DomIdle /\ GraphIdle /\ TaskIdle

SpecPage == InitPage /\ [][NextPage]_vars

\* All six machines, each started on its own.
Init == InitCrawl \/ InitScore \/ InitDom \/ InitGraph \/ InitTask \/ InitPage

Next == NextCrawl \/ NextScore \/ NextDom \/ NextGraph \/ NextTask \/ NextPage

Spec == Init /\ [][Next]_vars

(***************************************************************************)
(* Properties of SmartCrawler.crawl (SpecCrawl).                           *)
(***************************************************************************)

Returned == pc = "done" /\ response.ok

\* C1: _check_link_status probes exactly the first min(N, 50) links, one at a
\* time in extraction order, and never a link at position 51 or later; every
\* link beyond the cap ends with status_code = None and is_broken = FALSE, and
\* the returned list has the same N links in the same order.
C1_ProbesFirstFifty ==
    /\ Len(probes) <= Min(Len(links), 50)
    /\ \A j \in DOMAIN probes : probes[j].link = j /\ probes[j].link <= 50
    /\ \A k \in DOMAIN links : links[k].url = k
    /\ pc \in {"audit", "return"} \/ Returned =>
         /\ Len(probes) = Min(Len(links), 50)
         /\ \A k \in DOMAIN links :
              k > 50 => links[k].has_status /\ links[k].status_code = None /\ ~links[k].is_broken
    /\ Returned => result.links = links /\ result.total_links = Len(links)

C1_Witness ==
    /\ Returned
    /\ Len(result.links) > 50
    /\ Len(probes) = 50
    /\ \E j \in DOMAIN probes : ~probes[j].out.ok

\* C2: in a successful result a link is broken iff it was probed and the probe
\* failed or answered a status >= 400; a failed probe sets status_code = None
\* and is_broken = TRUE for its own link only: every other link carries the
\* fields of its own probe, and the links after it are still probed.
C2_BrokenIffProbedAndBad ==
    Returned =>
        \A k \in DOMAIN result.links :
            LET l == result.links[k]
                probed == {j \in DOMAIN probes : probes[j].link = k}
            IN  /\ l.has_status
                /\ l.is_broken <=>
                     \E j \in probed : ~probes[j].out.ok \/ probes[j].out.status_code >= 400
                /\ \A j \in probed :
                     /\ ~probes[j].out.ok => l.status_code = None /\ l.is_broken
                     /\ probes[j].out.ok => l.status_code = <<probes[j].out.status_code>>
                /\ k <= Min(Len(result.links), 50) => probed # {}

C2_Witness ==
    /\ Returned
    /\ \E j \in DOMAIN probes :
         /\ ~probes[j].out.ok
         /\ j + 1 \in DOMAIN probes
         /\ result.links[j].is_broken
         /\ ~result.links[j + 1].is_broken

\* C3: when the page fetch raises a network-level error the analysis ends at
\* once with success = FALSE, an error message, page_info None, no links and
\* all three counts 0; nothing was parsed, extracted, probed or scored.
C3_FetchFailureEndsAnalysis ==
    response # None /\ ~response.ok =>
        /\ pc = "done"
        /\ ~result.success
        /\ result.error \in FetchErrors
        /\ result.page_info = None
        /\ result.links = <<>>
        /\ result.total_links = 0 /\ result.internal_links = 0 /\ result.external_links = 0
        /\ page_info = None /\ links = <<>> /\ probes = <<>> /\ lighthouse = None

C3_Witness == pc = "done" /\ ~response.ok /\ result.error = "Timeout"

\* C4: when a step of the scoring raises, _run_lighthouse_audit returns
\* overall 0 and four sub-scores 0 with the single diagnostic {'error': msg},
\* and crawl() still returns success with the page info and the complete list
\* of status-checked links.
C4_ScoringFailureIsContained ==
    audit_exc # None =>
        /\ lighthouse.overall = 0
        /\ lighthouse.performance = 0 /\ lighthouse.accessibility = 0
        /\ lighthouse.best_practices = 0 /\ lighthouse.seo = 0
        /\ lighthouse.audits = [error |-> audit_exc[1]]
        /\ pc \in {"return", "done"}
        /\ pc = "done" =>
             /\ result.success
             /\ result.page_info.status_code = response.status_code
             /\ result.page_info.lighthouse_score = lighthouse
             /\ result.links = links
             /\ \A k \in DOMAIN result.links : result.links[k].has_status

C4_Witness ==
    /\ pc = "done"
    /\ audit_exc = <<"seo">>
    /\ result.success
    /\ Len(result.links) > 50

(***************************************************************************)
(* Properties of the audit scorer (SpecScore).                             *)
(***************************************************************************)

AuditScored == audit_out # None /\ audit_out.metrics # None

\* C5: for integer sub-scores p, a, b, s in [0,100] the overall score of a
\* non-failing audit is 0.30p + 0.25a + 0.25b + 0.20s rounded to the nearest
\* integer (no integer is nearer to the weighted sum), and is an integer in
\* [0,100].
C5_OverallIsRoundedWeightedSum ==
    AuditScored =>
        LET p == audit_out.performance
            a == audit_out.accessibility
            b == audit_out.best_practices
            s == audit_out.seo
            sum100 == 30 * p + 25 * a + 25 * b + 20 * s
        IN  /\ {p, a, b, s} \subseteq 0..100
            /\ a = audit_in.a /\ b = audit_in.b /\ s = audit_in.s
            /\ audit_out.overall \in 0..100
            /\ 100 * audit_out.overall - sum100 \in -50..50

C5_Witness ==
    /\ AuditScored
    /\ audit_out.performance = 100 /\ audit_in.a = 70 /\ audit_in.b = 100 /\ audit_in.s = 100
    /\ audit_out.overall = 92

\* The bands of the claim: the penalty of the one band that holds t (the
\* lower edge is outside the band, the upper edge inside).
TimeBands ==
    {[lo |-> -1, hi |-> 500, penalty |-> 0], [lo |-> 500, hi |-> 1000, penalty |-> 10],
     [lo |-> 1000, hi |-> 2000, penalty |-> 20], [lo |-> 2000, hi |-> 3000, penalty |-> 30],
     [lo |-> 3000, hi |-> 1000000000, penalty |-> 40]}

SizeBands ==
    {[lo |-> -1, hi |-> MB, penalty |-> 0], [lo |-> MB, hi |-> 3 * MB, penalty |-> 10],
     [lo |-> 3 * MB, hi |-> 5 * MB, penalty |-> 20],
     [lo |-> 5 * MB, hi |-> 1000000000, penalty |-> 30]}

\* C6: the performance sub-score is 100 minus the penalty of the one
\* response-time band and the one size band the inputs fall in (band edges
\* belong to the lower band, penalties are never summed across bands), and it
\* lies in [0,100].
C6_PerformanceBands ==
    AuditScored =>
        \E tb \in TimeBands, sb \in SizeBands :
            /\ tb.lo < audit_in.response_time /\ audit_in.response_time <= tb.hi
            /\ sb.lo < audit_in.page_size /\ audit_in.page_size <= sb.hi
            /\ audit_out.performance = 100 - tb.penalty - sb.penalty
            /\ audit_out.performance \in 0..100

C6_Witness ==
    /\ AuditScored
    /\ audit_in.response_time = 3000
    /\ audit_in.page_size = 5 * MB + 1
    /\ audit_out.performance = 40

\* The performance findings of the audit's findings list.
PerformanceFindings == SelectSeq(audit_out.audits, LAMBDA f : f.category = "performance")

\* C14: the findings list holds a performance finding iff the response time
\* is greater than 1 second; its severity is error exactly when the response
\* time is greater than 3 seconds and warning otherwise, so that exactly 3
\* seconds gives warning.
C14_PerformanceFinding ==
    AuditScored =>
        /\ Len(PerformanceFindings) = IF audit_in.response_time > 1000 THEN 1 ELSE 0
        /\ \A i \in DOMAIN PerformanceFindings :
             PerformanceFindings[i].score
               = IF audit_in.response_time > 3000 THEN "error" ELSE "warning"

\* A response time of exactly 3 seconds, reported as an error.
C14_Witness ==
    /\ AuditScored
    /\ audit_in.response_time = 3000
    /\ Len(PerformanceFindings) = 1
    /\ PerformanceFindings[1].score = "error"

(***************************************************************************)
(* Properties of the structure tree and the parent path (SpecDom).         *)
(***************************************************************************)

RECURSIVE AncestorsOf(_, _)

\* The ancestors of element n, body included.
AncestorsOf(d, n) == IF n = Body THEN {} ELSE {d.parent[n]} \cup AncestorsOf(d, d.parent[n])

DepthOf(d, n) == Cardinality(AncestorsOf(d, n))

RECURSIVE NodesOf(_)

\* The elements that are nodes of a structure tree.
NodesOf(node) == {node.element} \cup UNION {NodesOf(node.children[i]) : i \in DOMAIN node.children}

RECURSIVE EdgesOf(_)

\* The <<parent, child>> pairs of a structure tree.
EdgesOf(node) ==
    {<<node.element, node.children[i].element>> : i \in DOMAIN node.children}
        \cup UNION {EdgesOf(node.children[i]) : i \in DOMAIN node.children}

TreeBuilt == dom_pc \in {"links", "done"}

Semantic(d, n) == TagOf(d, n) \in semantic_tags

\* The nearest ancestor of n with a semantic tag (body is one).
NearestSemantic(d, n) ==
    CHOOSE x \in AncestorsOf(d, n) :
        /\ Semantic(d, x)
        /\ \A y \in AncestorsOf(d, n) : Semantic(d, y) => DepthOf(d, y) <= DepthOf(d, x)

PathDescriptor(d, n) ==
    CASE d.el[n].id # "" -> <<d.el[n].tag, "#", d.el[n].id>>
      [] d.el[n].id = "" /\ Len(d.el[n].classes) > 0 -> <<d.el[n].tag, ".", Head(d.el[n].classes)>>
      [] OTHER -> <<d.el[n].tag>>

\* The ancestors of n strictly between n and body that the path names.
PathAncestors(d, n) ==
    {x \in AncestorsOf(d, n) \ {Body} :
        d.el[x].tag \in {"header", "footer", "nav", "main", "section", "article", "aside"}}

RECURSIVE PathFrom(_, _, _)

\* The descriptors of the elements of S from depth k down, ' > ' between them.
PathFrom(d, S, k) ==
    LET here == {x \in S : DepthOf(d, x) = k}
        deeper == {x \in S : DepthOf(d, x) > k}
        x == CHOOSE y \in here : TRUE
    IN  IF here = {} THEN (IF deeper = {} THEN <<>> ELSE PathFrom(d, S, k + 1))
        ELSE IF deeper = {} THEN PathDescriptor(d, x)
        ELSE PathDescriptor(d, x) \o <<" > ">> \o PathFrom(d, S, k + 1)

\* C8: parent_element of every extracted link is the ' > '-joined chain,
\* outermost first, of the descriptors of its ancestors strictly between the
\* link and body whose tag is header, footer, nav, main, section, article or
\* aside; other ancestors (div) contribute nothing; "body" when there is none.
C8_ParentPath ==
    dom_pc = "done" =>
        \A i \in DOMAIN dom_links :
            LET n == dom_links[i].element
                S == PathAncestors(dom, n)
            IN  dom_links[i].parent_element =
                    IF S = {} THEN <<"body">> ELSE PathFrom(dom, S, 1)

C8_Witness ==
    /\ dom_pc = "done"
    /\ Len(dom_links) = 1
    /\ dom_links[1].parent_element = <<"section", "#", "s1", " > ", "nav", ".", "main-nav">>
    /\ \E x \in AncestorsOf(dom, dom_links[1].element) : TagOf(dom, x) = "div"

(***************************************************************************)
(* Properties of the graph layout (SpecGraph).                             *)
(***************************************************************************)

GraphBuilt == graph # None

\* The first n links of the given type, in input order.
FirstOfType(t, n) ==
    LET all == SelectSeq(job.links, LAMBDA l : l.link_type = t)
    IN  [i \in 1..(IF Len(all) < n THEN Len(all) ELSE n) |-> all[i]]

PathOf(l) == IF l.parent_element = None THEN <<"body">> ELSE l.parent_element

AllPaths == {<<"body">>} \cup (ParentElements \ {None})

NodesOfType(t) == {i \in DOMAIN graph.nodes : graph.nodes[i].type = t}

EdgesInto(id) == {i \in DOMAIN graph.edges : graph.edges[i].to = id}

\* The capped internal links with the given path.
Members(path) ==
    LET capped == FirstOfType("internal", 50)
    IN  {i \in DOMAIN capped : PathOf(capped[i]) = path}

GroupNodes(path) == {i \in NodesOfType("element_group") : graph.nodes[i].parent_element = path}

\* C9: after the cap of 50, a parent path has an element-group node iff more
\* than one internal link has that path; every element-group node has exactly
\* one incoming edge, from root; each internal link has exactly one node and
\* that node exactly one incoming edge, from its path's group node when the
\* group has more than one member and from root otherwise.
C9_ElementGroups ==
    GraphBuilt =>
        LET capped == FirstOfType("internal", 50)
        IN  /\ \A path \in AllPaths :
                 Cardinality(GroupNodes(path)) = IF Cardinality(Members(path)) > 1 THEN 1 ELSE 0
            /\ \A g \in NodesOfType("element_group") :
                 /\ Cardinality(EdgesInto(graph.nodes[g].id)) = 1
                 /\ \A e \in EdgesInto(graph.nodes[g].id) : graph.edges[e].from = <<"root">>
            /\ \A i, j \in DOMAIN graph.nodes : graph.nodes[i].id = graph.nodes[j].id => i = j
            /\ Cardinality(NodesOfType("internal")) = Len(capped)
            /\ \A u \in DOMAIN Urls, path \in AllPaths :
                 Cardinality({n \in NodesOfType("internal") :
                                graph.nodes[n].url = u /\ graph.nodes[n].parent_element = path})
                   = Cardinality({i \in Members(path) : capped[i].url = u})
            /\ \A n \in NodesOfType("internal") :
                 /\ Cardinality(EdgesInto(graph.nodes[n].id)) = 1
                 /\ \A e \in EdgesInto(graph.nodes[n].id) :
                      IF Cardinality(Members(graph.nodes[n].parent_element)) > 1
                      THEN \E g \in GroupNodes(graph.nodes[n].parent_element) :
                              graph.edges[e].from = graph.nodes[g].id
                      ELSE graph.edges[e].from = <<"root">>

C9_Witness ==
    /\ GraphBuilt
    /\ Len(SelectSeq(job.links, LAMBDA l : l.link_type = "internal")) > 50
    /\ Cardinality(Members(<<"section", "#", "s1">>)) = 1
    /\ Cardinality({i \in DOMAIN job.links : job.links[i].parent_element = <<"section", "#", "s1">>}) = 3
    /\ GroupNodes(<<"nav", ".", "main-nav">>) # {}
    /\ GroupNodes(<<"section", "#", "s1">>) = {}
    /\ \E n \in NodesOfType("internal") :
         /\ graph.nodes[n].parent_element = <<"section", "#", "s1">>
         /\ \E e \in EdgesInto(graph.nodes[n].id) : graph.edges[e].from = <<"root">>

HostOf(l) == Urls[l.url].host

\* The edges that end in an external node, in the order they were added.
ExternalEdges == SelectSeq(graph.edges, LAMBDA e : e.to[1] = "external")

\* C10: over the first 30 external links in input order there is exactly one
\* external node (layer 1, label = host) per distinct host, made at the first
\* link to that host; every external link, the first included, adds one edge
\* from root to its host's node whose count is the number of links to that
\* host so far (k links: one node, k edges, counts 1..k); no external link has
\* a node of its own.
C10_ExternalHosts ==
    GraphBuilt =>
        LET ext == FirstOfType("external", 30)
            hosts == {HostOf(ext[i]) : i \in DOMAIN ext}
            firstTo(h) == CHOOSE i \in DOMAIN ext :
                             HostOf(ext[i]) = h /\ \A k \in 1..(i - 1) : HostOf(ext[k]) # h
            nodeOf(h) == {n \in NodesOfType("external") : graph.nodes[n].domain = h}
        IN  /\ Cardinality(NodesOfType("external")) = Cardinality(hosts)
            /\ \A h \in hosts :
                 /\ Cardinality(nodeOf(h)) = 1
                 /\ \A n \in nodeOf(h) :
                      /\ graph.nodes[n].layer = 1
                      /\ graph.nodes[n].label = h
                      /\ graph.nodes[n].url = ext[firstTo(h)].url
            /\ Len(ExternalEdges) = Len(ext)
            /\ \A j \in DOMAIN ext :
                 /\ ExternalEdges[j].from = <<"root">>
                 /\ \E n \in nodeOf(HostOf(ext[j])) : ExternalEdges[j].to = graph.nodes[n].id
                 /\ ExternalEdges[j].count
                      = Cardinality({i \in 1..j : HostOf(ext[i]) = HostOf(ext[j])})
            /\ \A h \in hosts :
                 {e.count : e \in {ExternalEdges[j] : j \in {i \in DOMAIN ext : HostOf(ext[i]) = h}}}
                   = 1..Cardinality({i \in DOMAIN ext : HostOf(ext[i]) = h})

C10_Witness ==
    /\ GraphBuilt
    /\ Len(SelectSeq(job.links, LAMBDA l : l.link_type = "external")) > 30
    /\ Cardinality(NodesOfType("external")) = 2
    /\ \E j \in DOMAIN ExternalEdges : ExternalEdges[j].count = 29
    /\ \E j \in DOMAIN ExternalEdges : ExternalEdges[j].count = 1 /\ j > 1

\* The fixed table: header, nav, main, footer, aside, body -> 1; section,
\* article -> 2; anything else -> 1.
GroupLayer(tag) == IF tag \in {"section", "article"} THEN 2 ELSE 1

\* The leading tag token of a parent-element path: the tag of its outermost
\* ancestor.
LeadingTag(path) == path[1]

\* C11: every internal link node has layer = groupLayer + min(number of
\* non-empty URL path segments, 2) + 1, and every element-group node has
\* layer = groupLayer, where groupLayer is the table's value for the leading
\* tag token of the node's parent-element path, whatever the shape of the
\* path ('section > article' included).
C11_LayerFromLeadingTag ==
    GraphBuilt =>
        /\ \A n \in NodesOfType("internal") :
             graph.nodes[n].layer
               = GroupLayer(LeadingTag(graph.nodes[n].parent_element))
                   + Min(Len(Urls[graph.nodes[n].url].segs), 2) + 1
        /\ \A g \in NodesOfType("element_group") :
             graph.nodes[g].layer = GroupLayer(LeadingTag(graph.nodes[g].parent_element))

\* An internal link below 'section > article' whose URL has three path
\* segments, and a group node for that path.
C11_Witness ==
    /\ GraphBuilt
    /\ \E n \in NodesOfType("internal") :
         /\ graph.nodes[n].parent_element = <<"section", " > ", "article">>
         /\ Len(Urls[graph.nodes[n].url].segs) = 3
    /\ GroupNodes(<<"section", " > ", "article">>) # {}

\* The nodes of the graph that carry the given id.
NodesWithId(id) == {i \in DOMAIN graph.nodes : graph.nodes[i].id = id}

\* C16: every edge of the graph goes from a node of the node list to a node
\* of the node list, and the layer of its source is strictly lower than the
\* layer of its target.
C16_EdgesGoDownLayers ==
    GraphBuilt =>
        \A e \in DOMAIN graph.edges :
            LET sources == NodesWithId(graph.edges[e].from)
                targets == NodesWithId(graph.edges[e].to)
            IN  /\ Cardinality(sources) = 1
                /\ Cardinality(targets) = 1
                /\ \A n \in sources, m \in targets : graph.nodes[n].layer < graph.nodes[m].layer

\* A group node on layer 2 with an edge to a link of the root path on layer
\* 3, next to an edge from root to an external host.
C16_Witness ==
    /\ GraphBuilt
    /\ \E e \in DOMAIN graph.edges :
         \E n \in NodesWithId(graph.edges[e].from), m \in NodesWithId(graph.edges[e].to) :
            /\ graph.nodes[n].type = "element_group"
            /\ graph.nodes[n].layer = 2
            /\ graph.nodes[m].type = "internal"
            /\ graph.nodes[m].layer = 3
    /\ \E e \in DOMAIN graph.edges :
         \E m \in NodesWithId(graph.edges[e].to) : graph.nodes[m].type = "external"

(***************************************************************************)
(* Properties of the task crawl_url (SpecTask).                            *)
(***************************************************************************)

\* The jobs whose task has finished.
Finished ==
    {j \in JobIds : /\ \A i \in DOMAIN queue : queue[i] # j
                    /\ (task.crawl_job_id = j => task.pc = "done")}

\* C12: the session used by the page fetch and the probes of one analysis is
\* acquired at the start of that analysis and released at its end on every
\* exit path of crawl() (success, early fetch failure, unexpected
\* exception), and no other analysis ever uses it.
C12_SessionScoped ==
    /\ \A s \in DOMAIN sessions : Cardinality(sessions[s].used_by) <= 1
    /\ task.exit # "none" =>
          /\ sessions[task.crawler].used_by = {task.crawl_job_id}
          /\ ~sessions[task.crawler].open

\* The first analysis completed and its session is still open while the
\* second one, whose crawl() raised, runs with a session of its own.
C12_Witness ==
    /\ Len(sessions) = 2
    /\ sessions[1].open
    /\ sessions[1].used_by = {1}
    /\ task.crawl_job_id = 2
    /\ task.exit = "exception"
    /\ crawl_jobs[1].status = "completed"

\* C17: once the task of a job has finished the job is completed or failed,
\* never pending or running, and a failed job has no PageInfo row and no
\* Link row, whichever step failed.
C17_FailedJobLeavesNothing ==
    \A j \in Finished :
        /\ crawl_jobs[j].status \in {"completed", "failed"}
        /\ crawl_jobs[j].status = "failed" => (j \notin page_info_rows /\ link_rows[j] = 0)

\* The save of the second link failed: the job is failed and keeps its
\* PageInfo row and its first Link row.
C17_Witness ==
    /\ 1 \in Finished
    /\ crawl_jobs[1].status = "failed"
    /\ crawl_jobs[1].error_message = "DataError"
    /\ 1 \in page_info_rows
    /\ link_rows[1] = 1

(***************************************************************************)
(* Properties of the analyzers and the schema extractor (SpecPage).        *)
(***************************************************************************)

PageAnalyzed == page_pc = "done"

\* The inputs of type text, email, password or tel that no label is
\* associated with: those without an id, and those whose id no label's for
\* attribute names.
LabellessInputs ==
    {i \in DOMAIN page.inputs :
        /\ page.inputs[i].type \in {"text", "email", "password", "tel"}
        /\ (page.inputs[i].id = None \/ page.inputs[i].id[1] \notin page.label_for)}

\* The accessibility score of the same page without its inputs and without
\* the role bonus.
ScoreBeforeInputs == analyze_accessibility([page EXCEPT !.inputs = <<>>, !.role = FALSE])

\* C13: the accessibility sub-score loses 5 points for each input of type
\* text, email, password or tel that has no associated label, an input
\* without an id attribute included; only an input that has an associated
\* label goes unpenalized.  (The role bonus and the clamp to 0..100 follow.)
C13_LabellessInputsPenalized ==
    PageAnalyzed =>
        LET penalized == ScoreBeforeInputs - 5 * Cardinality(LabellessInputs)
            rewarded == IF page.role THEN Min(100, penalized + 5) ELSE penalized
        IN  page_audit.accessibility = <<Max(0, Min(100, rewarded))>>

\* A text input with no id and no label, on a page that scores 100.
C13_Witness ==
    /\ PageAnalyzed
    /\ page.inputs = <<[type |-> "text", id |-> None]>>
    /\ page.label_for = {}
    /\ ~page.role
    /\ ScoreBeforeInputs = 100
    /\ page_audit.accessibility = <<100>>

\* The SEO score of the same page without its ld+json scripts.
ScoreBeforeBonus == analyze_seo([page EXCEPT !.ld_json = <<>>])

\* C15: the SEO sub-score gets the +10 bonus (capped at 100) iff the list of
\* extracted structured-data blocks is non-empty; a page whose ld+json
\* scripts are all malformed has zero blocks and gets no bonus.
C15_BonusIffBlocks ==
    PageAnalyzed =>
        /\ page_audit.seo = <<IF page_audit.schema_markup # <<>>
                              THEN Min(100, ScoreBeforeBonus + 10)
                              ELSE ScoreBeforeBonus>>
        /\ (\A i \in DOMAIN page.ld_json : page.ld_json[i] = "malformed")
              => page_audit.schema_markup = <<>> /\ page_audit.seo = <<ScoreBeforeBonus>>

\* A page whose one ld+json script is malformed: no block, and the bonus.
C15_Witness ==
    /\ PageAnalyzed
    /\ page.ld_json = <<"malformed">>
    /\ page_audit.schema_markup = <<>>
    /\ ScoreBeforeBonus = 90
    /\ page_audit.seo = <<100>>

====
